---- MODULE Spec2Model ----
(***************************************************************************)
(* Model of Vjudge_contest_Ranker.py: main() reads the leaderboard files   *)
(* of the directory "Leaderboards", turns every (Team, Rank) row into      *)
(* points, and write_participants_and_teams_to_excel() aggregates, sorts   *)
(* and slices the participants into teams.                                 *)
(*                                                                         *)
(* A Python str is modelled as a sequence of one-character strings, so     *)
(* that strip(), endswith(), int(str), lower() and the ordering of strings *)
(* are computed and not assumed.                                           *)
(***************************************************************************)
EXTENDS Integers, Sequences, FiniteSets, TLC

VARIABLES
    fs,               \* the file system: Requirements.txt, the directory Leaderboards
    pc,               \* position of the run
    outcome,          \* how the run ended: a message of main(), or the exception raised
    files,            \* main: files
    answer,           \* the line typed at the team-size prompt
    team_size,        \* main: team_size
    all_scores,       \* main: all_scores, file name -> (username -> points)
    saved_any,        \* main: saved_any
    fi,               \* main: index in files of the file of the loop
    df,               \* read_excel_file: the frame of the open file
    standings,        \* read_excel_file / main: standings
    participants_df,  \* write_participants_and_teams_to_excel: participants_df
    teams,            \* write_participants_and_teams_to_excel: teams
    out_file,         \* the sheets final_teams.xlsx holds, <<>> while it does not exist
    rank,             \* points_for_rank: its argument
    points            \* points_for_rank: its result

vars == << fs, pc, outcome, files, answer, team_size, all_scores, saved_any, fi,
           df, standings, participants_df, teams, out_file, rank, points >>

-----------------------------------------------------------------------------
(* Bounds of the model *)

MaxFiles == 2          \* .xlsx files in the directory
MaxRows == 2           \* rows of one leaderboard file
MaxRank == 100         \* ranks given to points_for_rank on its own
MaxParticipants == 7   \* rows of a frame that is sliced on its own
MaxTeamSize == 4       \* team sizes a frame is sliced with on its own

-----------------------------------------------------------------------------
(* Python str *)

Digits == << "0", "1", "2", "3", "4", "5", "6", "7", "8", "9" >>
Upper  == << "A", "B", "C", "D", "E", "F", "G", "H", "I", "J", "K", "L", "M",
             "N", "O", "P", "Q", "R", "S", "T", "U", "V", "W", "X", "Y", "Z" >>
Lower  == << "a", "b", "c", "d", "e", "f", "g", "h", "i", "j", "k", "l", "m",
             "n", "o", "p", "q", "r", "s", "t", "u", "v", "w", "x", "y", "z" >>

IndexIn(seq, c) == CHOOSE i \in 1..Len(seq) : seq[i] = c
Has(seq, c) == \E i \in 1..Len(seq) : seq[i] = c

\* ord(c), for the characters the inputs of the model are written with
Ord(c) ==
    CASE Has(Digits, c) -> 47 + IndexIn(Digits, c)
      [] Has(Upper, c)  -> 64 + IndexIn(Upper, c)
      [] Has(Lower, c)  -> 96 + IndexIn(Lower, c)
      [] c = " "        -> 32
      [] c = "+"        -> 43
      [] c = "-"        -> 45
      [] c = "."        -> 46
      [] c = "_"        -> 95

\* c.isspace(), on the printable characters
IsSpace(c) == c = " "

\* c.isdigit(), on the printable characters
IsDigit(c) == Has(Digits, c)

RECURSIVE lstrip(_)
lstrip(s) == IF s # <<>> /\ IsSpace(Head(s)) THEN lstrip(Tail(s)) ELSE s

RECURSIVE rstrip(_)
rstrip(s) == IF s # <<>> /\ IsSpace(s[Len(s)]) THEN rstrip(SubSeq(s, 1, Len(s) - 1)) ELSE s

\* s.strip()
strip(s) == rstrip(lstrip(s))

\* s.endswith(suffix)
endswith(s, suffix) ==
    /\ Len(s) >= Len(suffix)
    /\ SubSeq(s, Len(s) - Len(suffix) + 1, Len(s)) = suffix

RECURSIVE DigitsValue(_, _)
DigitsValue(s, acc) ==
    IF s = <<>> THEN acc ELSE DigitsValue(Tail(s), 10 * acc + (Ord(Head(s)) - 48))

\* int(s) of a str: surrounding whitespace is dropped, then an optional sign and
\* one or more digits; anything else raises ValueError
int_str(s) ==
    LET t == strip(s)
        signed == t # <<>> /\ Head(t) \in {"+", "-"}
        digits == IF signed THEN Tail(t) ELSE t
    IN  IF digits # <<>> /\ \A i \in 1..Len(digits) : IsDigit(digits[i])
        THEN [exc |-> "none",
              val |-> IF signed /\ Head(t) = "-" THEN 0 - DigitsValue(digits, 0)
                      ELSE DigitsValue(digits, 0)]
        ELSE [exc |-> "ValueError", val |-> 0]

-----------------------------------------------------------------------------
(* Cells of a leaderboard sheet, as pandas hands them over in a row *)

StrCell(s)   == [t |-> "str",   i |-> 0, s |-> s]
IntCell(n)   == [t |-> "int",   i |-> n, s |-> <<>>]
FloatCell(n) == [t |-> "float", i |-> n, s |-> <<>>]    \* a finite float, in tenths
NaNCell      == [t |-> "nan",   i |-> 0, s |-> <<>>]    \* an empty cell
DateCell     == [t |-> "date",  i |-> 0, s |-> <<>>]    \* a cell formatted as a date

RECURSIVE DecimalDigits(_)
DecimalDigits(n) ==
    IF n < 10 THEN << Digits[n + 1] >>
    ELSE Append(DecimalDigits(n \div 10), Digits[(n % 10) + 1])

\* str(cell) of a str, an empty cell or an int
str(cell) ==
    CASE cell.t = "str" -> cell.s
      [] cell.t = "nan" -> << "n", "a", "n" >>
      [] cell.t = "int" -> IF cell.i < 0 THEN << "-" >> \o DecimalDigits(0 - cell.i)
                           ELSE DecimalDigits(cell.i)

\* int(cell): an int is itself, a float is cut towards zero, NaN and a str that is
\* no integer literal raise ValueError, a date raises TypeError
int(cell) ==
    CASE cell.t = "int"   -> [exc |-> "none", val |-> cell.i]
      [] cell.t = "float" -> [exc |-> "none",
                              val |-> IF cell.i >= 0 THEN cell.i \div 10
                                      ELSE 0 - ((0 - cell.i) \div 10)]
      [] cell.t = "nan"   -> [exc |-> "ValueError", val |-> 0]
      [] cell.t = "str"   -> int_str(cell.s)
      [] OTHER            -> [exc |-> "TypeError", val |-> 0]

-----------------------------------------------------------------------------
(* points_for_rank *)

N == 1600
K == 7

\* math.ceil(a / b) for b # 0; the float quotient of two integers of this size is
\* never rounded across an integer, so the ceiling is the exact one
CeilDiv(a, b) ==
    IF b > 0
    THEN IF a >= 0 THEN (a + b - 1) \div b ELSE 0 - ((0 - a) \div b)
    ELSE IF a >= 0 THEN 0 - (a \div (0 - b)) ELSE ((0 - a) + (0 - b) - 1) \div (0 - b)

\* rank + 7 = 0 raises ZeroDivisionError
points_raises(r) == r + K = 0

\* the quotient rounded down, not up
points_for_rank_floor(r) == N \div (r + K)

\* math.ceil(1600 / (rank + 7))
points_for_rank(r) == CeilDiv(N, r + K)

-----------------------------------------------------------------------------
(* dict and list helpers *)

EmptyMap == [x \in {} |-> 0]

\* d[k] = v
Put(d, k, v) == [x \in (DOMAIN d) \cup {k} |-> IF x = k THEN v ELSE d[x]]

\* d.get(k, default)
Get(d, k, default) == IF k \in DOMAIN d THEN d[k] ELSE default

\* the orders in which the elements of a set can be listed
Orderings(S) ==
    { s \in [1..Cardinality(S) -> S] : \A i, j \in 1..Cardinality(S) : i # j => s[i] # s[j] }

RECURSIVE SumOver(_, _)
SumOver(f, S) ==
    IF S = {} THEN 0
    ELSE LET x == CHOOSE y \in S : TRUE IN f[x] + SumOver(f, S \ {x})

Min(a, b) == IF a <= b THEN a ELSE b

Max(S) == CHOOSE x \in S : \A y \in S : y <= x

-----------------------------------------------------------------------------
(* The inputs of a run *)

XlsxSuffix == << ".", "x", "l", "s", "x" >>
NotesTxt == << "n", "o", "t", "e", "s", ".", "t", "x", "t" >>

\* "1.xlsx", "2.xlsx", ...
FileName(i) == << Digits[i + 1] >> \o XlsxSuffix

DirEntries == { FileName(i) : i \in 1..MaxFiles } \cup { NotesTxt }

\* Requirements.txt beside the script, and the directory Leaderboards
\* of at most MaxFiles entries
FileSystems ==
    { f \in [requirements : BOOLEAN, exists : BOOLEAN, entries : SUBSET DirEntries] :
        /\ Cardinality(f.entries) <= MaxFiles
        /\ ~f.exists => f.entries = {} }

\* the lines typed at the prompt: "", "abc", "0", "-2", " 2 "
Answers == { << >>, << "a", "b", "c" >>, << "0" >>, << "-", "2" >>, << " ", "2", " " >> }

Team      == << "T", "e", "a", "m" >>
Rank      == << "R", "a", "n", "k" >>
Username  == << "U", "s", "e", "r", "n", "a", "m", "e" >>
TeamLower == << "t", "e", "a", "m" >>
RankUpper == << "R", "A", "N", "K" >>
Solved    == << "S", "o", "l", "v", "e", "d" >>

\* the header rows of the sheets
HeaderSets == { {Team, Rank}, {Username, Rank}, {TeamLower, Rank}, {Team, RankUpper},
                {Team, Solved}, {Solved, Rank} }

\* the cells of the column that names the participant: "alice", " bob ", "  "
IdentCells == { StrCell(<< "a", "l", "i", "c", "e" >>),
                StrCell(<< " ", "b", "o", "b", " " >>),
                StrCell(<< " ", " " >>) }

\* the cells of the column that holds the rank
RankCells == { IntCell(1), IntCell(10), IntCell(0), IntCell(0 - 7), IntCell(0 - 8), FloatCell(15),
               NaNCell, StrCell(<< "1", ".", "0" >>), DateCell }

\* the cells a column can hold, by what its header says it holds
CellsOf(header) ==
    IF header \in { Team, Username, TeamLower } THEN IdentCells
    ELSE IF header \in { Rank, RankUpper } THEN RankCells
    ELSE { IntCell(5) }

\* the rows a sheet with these headers can hold
RECURSIVE Rows(_)
Rows(columns) ==
    IF columns = {} THEN { EmptyMap }
    ELSE LET h == CHOOSE x \in columns : TRUE
         IN  { Put(row, h, cell) : row \in Rows(columns \ {h}), cell \in CellsOf(h) }

NoDf == [columns |-> {}, at |-> 0, exc |-> "closed"]

-----------------------------------------------------------------------------
(* write_participants_and_teams_to_excel, the pure parts *)

\* usernames: the keys of every file's scores
usernames_of(scores) == UNION { DOMAIN scores[f] : f \in DOMAIN scores }

\* one row of participants_data: the username and, per file, its points or 0
row_of(scores, username) ==
    [Username |-> username,
     cols |-> [f \in DOMAIN scores |-> Get(scores[f], username, 0)]]

\* the largest of the file columns, not their sum
FinalPointsMax(row) == Max({ row.cols[f] : f \in DOMAIN row.cols })

\* participants_df[file_columns].sum(axis=1)
FinalPoints(row) == SumOver(row.cols, DOMAIN row.cols)

\* participants_df with its FinalPoints column, in the order of participants_data
with_final_points(participants_data) ==
    [i \in 1..Len(participants_data) |->
        [Username |-> participants_data[i].Username,
         cols |-> participants_data[i].cols,
         FinalPoints |-> FinalPoints(participants_data[i])]]

Range(seq) == { seq[i] : i \in 1..Len(seq) }

\* sort_values(by='FinalPoints', ascending=False): the rows by FinalPoints, largest
\* first; the sort is pandas' default quicksort, which promises no order among rows
\* of equal FinalPoints
sort_values(frame) ==
    { p \in Orderings(Range(frame)) :
        \A i, j \in 1..Len(p) : i < j => p[i].FinalPoints >= p[j].FinalPoints }

\* range(0, n, step) for step # 0, as the list of its values
range0(n, step) ==
    IF step > 0 THEN [k \in 1..((n + step - 1) \div step) |-> (k - 1) * step]
    ELSE << >>

\* frame.iloc[i:j] for 0 <= i <= j
iloc(frame, i, j) == SubSeq(frame, i + 1, Min(j, Len(frame)))

\* slices that stop one row early
form_teams_short(frame, size) ==
    LET starts == range0(Len(frame), size)
    IN  [k \in 1..Len(starts) |-> iloc(frame, starts[k], starts[k] + size - 1)]

\* [participants_df.iloc[i:i + team_size] for i in range(0, len(participants_df), team_size)]
form_teams(frame, size) ==
    LET starts == range0(Len(frame), size)
    IN  [k \in 1..Len(starts) |-> iloc(frame, starts[k], starts[k] + size)]

-----------------------------------------------------------------------------
(* main, the pure parts *)

DefaultTeamSize == 3

\* int(input(...).strip() or "3"), 3 on ValueError
parse_team_size(line) ==
    LET typed == strip(line)
        r == int_str(IF typed = << >> THEN << "3" >> ELSE typed)
    IN  IF r.exc = "ValueError" THEN DefaultTeamSize ELSE r.val

\* for u, r in standings: all_scores[file][u] = points_for_rank(r)
RECURSIVE store_points(_, _)
store_points(scores, st) ==
    IF st = << >> THEN [exc |-> "none", scores |-> scores]
    ELSE IF points_raises(Head(st)[2])
         THEN [exc |-> "ZeroDivisionError", scores |-> scores]
         ELSE store_points(Put(scores, Head(st)[1], points_for_rank(Head(st)[2])), Tail(st))

\* [f for f in os.listdir(Leaderboards_dir) if f.endswith('.xlsx')]
xlsx_files(listing) == SelectSeq(listing, LAMBDA f : endswith(f, XlsxSuffix))

-----------------------------------------------------------------------------
(* The run of main() *)

Init ==
    /\ fs \in FileSystems
    /\ pc = "start"
    /\ outcome = "running"
    /\ files = << >>
    /\ answer = << >>
    /\ team_size = 0
    /\ all_scores = EmptyMap
    /\ saved_any = FALSE
    /\ fi = 0
    /\ df = NoDf
    /\ standings = << >>
    /\ participants_df = << >>
    /\ teams = << >>
    /\ out_file = << >>
    /\ rank = 0
    /\ points = 0

\* main: Requirements.txt must exist, or the run ends with sys.exit(1)
CheckRequirements ==
    /\ pc = "start"
    /\ IF fs.requirements
       THEN pc' = "install" /\ outcome' = outcome
       ELSE pc' = "done" /\ outcome' = "SystemExit"
    /\ UNCHANGED << fs, files, answer, team_size, all_scores, saved_any, fi, df,
                    standings, participants_df, teams, out_file, rank, points >>

\* main: pip installs each dependency; check_call raises when pip fails
InstallDependencies ==
    /\ pc = "install"
    /\ \E installed \in BOOLEAN :
          IF installed
          THEN pc' = "listdir" /\ outcome' = outcome
          ELSE pc' = "done" /\ outcome' = "CalledProcessError"
    /\ UNCHANGED << fs, files, answer, team_size, all_scores, saved_any, fi, df,
                    standings, participants_df, teams, out_file, rank, points >>

\* main: os.listdir raises when the directory is missing; with no .xlsx file the
\* run prints its message and returns
ListFiles ==
    /\ pc = "listdir"
    /\ IF ~fs.exists
       THEN pc' = "done" /\ outcome' = "FileNotFoundError" /\ files' = files
       ELSE \E listing \in Orderings(fs.entries) :
              /\ files' = xlsx_files(listing)
              /\ IF files' = << >>
                 THEN pc' = "done" /\ outcome' = "NoExcelFiles"
                 ELSE pc' = "prompt" /\ outcome' = outcome
    /\ UNCHANGED << fs, answer, team_size, all_scores, saved_any, fi, df,
                    standings, participants_df, teams, out_file, rank, points >>

\* main: the prompt for the team size, then the loop over the files starts
Prompt ==
    /\ pc = "prompt"
    /\ \E line \in Answers :
          /\ answer' = line
          /\ team_size' = parse_team_size(line)
    /\ all_scores' = EmptyMap
    /\ saved_any' = FALSE
    /\ fi' = 1
    /\ pc' = "file"
    /\ UNCHANGED << fs, outcome, files, df, standings, participants_df, teams,
                    out_file, rank, points >>

\* read_excel_file: pd.read_excel; a file that cannot be read raises, which the
\* function catches to return []
OpenFile ==
    /\ pc = "file"
    /\ \E readable \in BOOLEAN, columns \in HeaderSets :
          IF readable
          THEN /\ df' = [columns |-> columns, at |-> 0, exc |-> "none"]
               /\ pc' = "rows"
          ELSE /\ df' = [columns |-> {}, at |-> 0, exc |-> "BadZipFile"]
               /\ pc' = "score"
    /\ standings' = << >>
    /\ UNCHANGED << fs, outcome, files, answer, team_size, all_scores, saved_any, fi,
                    participants_df, teams, out_file, rank, points >>

\* read_excel_file: one turn of the loop over df.iterrows()
ReadRow ==
    /\ pc = "rows"
    /\ df.at < MaxRows
    /\ \E row \in Rows(df.columns) :
          IF Team \notin DOMAIN row \/ Rank \notin DOMAIN row
          THEN /\ df' = [df EXCEPT !.at = @ + 1, !.exc = "KeyError"]
               /\ standings' = << >>
               /\ pc' = "score"
          ELSE LET username == strip(str(row[Team]))
                   r == int(row[Rank])
               IN  CASE r.exc = "none" ->
                          /\ df' = [df EXCEPT !.at = @ + 1]
                          /\ standings' = Append(standings, << username, r.val >>)
                          /\ pc' = pc
                     [] r.exc = "ValueError" ->
                          /\ df' = [df EXCEPT !.at = @ + 1]
                          /\ standings' = standings
                          /\ pc' = pc
                     [] OTHER ->
                          /\ df' = [df EXCEPT !.at = @ + 1, !.exc = r.exc]
                          /\ standings' = << >>
                          /\ pc' = "score"
    /\ UNCHANGED << fs, outcome, files, answer, team_size, all_scores, saved_any, fi,
                    participants_df, teams, out_file, rank, points >>

\* read_excel_file: the rows are over, return standings
ReturnStandings ==
    /\ pc = "rows"
    /\ pc' = "score"
    /\ UNCHANGED << fs, outcome, files, answer, team_size, all_scores, saved_any, fi, df,
                    standings, participants_df, teams, out_file, rank, points >>

\* main: the body of the loop after read_excel_file has returned
ScoreFile ==
    /\ pc = "score"
    /\ df' = NoDf
    /\ IF standings # << >>
       THEN LET stored == store_points(Get(all_scores, files[fi], EmptyMap), standings)
            IN  /\ saved_any' = TRUE
                /\ all_scores' = IF stored.scores = EmptyMap THEN all_scores
                                 ELSE Put(all_scores, files[fi], stored.scores)
                /\ IF stored.exc = "none"
                   THEN /\ fi' = fi + 1
                        /\ pc' = IF fi = Len(files) THEN "finish" ELSE "file"
                        /\ outcome' = outcome
                   ELSE /\ fi' = fi
                        /\ pc' = "done"
                        /\ outcome' = stored.exc
       ELSE /\ fi' = fi + 1
            /\ pc' = IF fi = Len(files) THEN "finish" ELSE "file"
            /\ UNCHANGED << saved_any, all_scores, outcome >>
    /\ UNCHANGED << fs, files, answer, team_size, standings, participants_df, teams,
                    out_file, rank, points >>

\* write_participants_and_teams_to_excel(all_scores, team_size): the rows are built
\* in the order a set of str is iterated, which differs from run to run; range()
\* raises ValueError for a step of 0, after the sheet Participants is written, and
\* the ExcelWriter saves what it holds when its block is left
write_participants_and_teams_to_excel ==
    \E order \in Orderings(usernames_of(all_scores)) :
       LET participants_data == [i \in 1..Len(order) |-> row_of(all_scores, order[i])]
       IN  \E sorted \in sort_values(with_final_points(participants_data)) :
              /\ participants_df' = sorted
              /\ IF team_size = 0
                 THEN /\ teams' = << >>
                      /\ out_file' = << sorted >>
                      /\ outcome' = "ValueError"
                 ELSE /\ teams' = form_teams(sorted, team_size)
                      /\ out_file' = << sorted >> \o teams'
                      /\ outcome' = "AllDone"

\* main: saved_any, so the workbook is written
WriteOutput ==
    /\ pc = "finish"
    /\ saved_any
    /\ write_participants_and_teams_to_excel
    /\ pc' = "done"
    /\ UNCHANGED << fs, files, answer, team_size, all_scores, saved_any, fi, df,
                    standings, rank, points >>

\* main: no file gave standings: "No points computed. Nothing to save."
NothingToSave ==
    /\ pc = "finish"
    /\ ~saved_any
    /\ pc' = "done"
    /\ outcome' = "NothingToSave"
    /\ UNCHANGED << fs, files, answer, team_size, all_scores, saved_any, fi, df,
                    standings, participants_df, teams, out_file, rank, points >>

Next ==
    \/ CheckRequirements
    \/ InstallDependencies
    \/ ListFiles
    \/ Prompt
    \/ OpenFile
    \/ ReadRow
    \/ ReturnStandings
    \/ ScoreFile
    \/ WriteOutput
    \/ NothingToSave

Spec == Init /\ [][Next]_vars

-----------------------------------------------------------------------------
(* points_for_rank on its own *)

Idle ==
    /\ fs = [requirements |-> TRUE, exists |-> TRUE, entries |-> {}]
    /\ files = << >>
    /\ answer = << >>
    /\ fi = 0
    /\ df = NoDf
    /\ standings = << >>
    /\ out_file = << >>

InitPoints ==
    /\ Idle
    /\ pc = "points"
    /\ outcome = "running"
    /\ rank \in (0 - MaxRank)..MaxRank
    /\ points = 0
    /\ team_size = 0
    /\ all_scores = EmptyMap
    /\ saved_any = FALSE
    /\ participants_df = << >>
    /\ teams = << >>

\* points = points_for_rank(r)
CallPointsForRank ==
    /\ pc = "points"
    /\ IF points_raises(rank)
       THEN points' = points /\ outcome' = "ZeroDivisionError"
       ELSE points' = points_for_rank(rank) /\ outcome' = "returned"
    /\ pc' = "done"
    /\ UNCHANGED << fs, files, answer, team_size, all_scores, saved_any, fi, df,
                    standings, participants_df, teams, out_file, rank >>

NextPoints == CallPointsForRank

SpecPoints == InitPoints /\ [][NextPoints]_vars

-----------------------------------------------------------------------------
(* The slicing of a sorted frame into teams on its own *)

\* a sorted frame of n participants "a", "b", ... over one file; with ties = 2 the
\* participants come in pairs of equal points
Frame(n, ties) ==
    [i \in 1..n |->
        [Username |-> << Lower[i] >>,
         cols |-> [f \in {FileName(1)} |-> points_for_rank(((i - 1) \div ties) + 1)],
         FinalPoints |-> points_for_rank(((i - 1) \div ties) + 1)]]

InitTeams ==
    /\ Idle
    /\ pc = "teams"
    /\ outcome = "running"
    /\ \E n \in 1..MaxParticipants, ties \in 1..2 : participants_df = Frame(n, ties)
    /\ team_size \in (0 - 1)..MaxTeamSize
    /\ teams = << >>
    /\ all_scores = EmptyMap
    /\ saved_any = TRUE
    /\ rank = 0
    /\ points = 0

\* teams = [participants_df.iloc[i:i + team_size] for i in range(0, len(participants_df), team_size)]
SliceTeams ==
    /\ pc = "teams"
    /\ IF team_size = 0
       THEN teams' = << >> /\ outcome' = "ValueError"
       ELSE teams' = form_teams(participants_df, team_size) /\ outcome' = "returned"
    /\ pc' = "done"
    /\ UNCHANGED << fs, files, answer, team_size, all_scores, saved_any, fi, df,
                    standings, participants_df, out_file, rank, points >>

NextTeams == SliceTeams

SpecTeams == InitTeams /\ [][NextTeams]_vars

-----------------------------------------------------------------------------
(* write_participants_and_teams_to_excel on the score tables main can build *)

Alice == << "a", "l", "i", "c", "e" >>
Bob   == << "b", "o", "b" >>

\* the usernames read_excel_file makes of IdentCells
TableNames == { strip(str(c)) : c \in IdentCells }

\* the points of the ranks 1 and 10
TablePoints == { points_for_rank(1), points_for_rank(10) }

\* the scores of one file: main stores a file only with at least one username
FileScores ==
    UNION { [names -> TablePoints] : names \in (SUBSET TableNames) \ { {} } }

ScoreTables ==
    UNION { [fnames -> FileScores] :
              fnames \in (SUBSET { FileName(i) : i \in 1..MaxFiles }) \ { {} } }

InitWrite ==
    /\ Idle
    /\ pc = "finish"
    /\ outcome = "running"
    /\ all_scores \in ScoreTables
    /\ team_size \in { parse_team_size(line) : line \in Answers }
    /\ saved_any = TRUE
    /\ participants_df = << >>
    /\ teams = << >>
    /\ rank = 0
    /\ points = 0

NextWrite == WriteOutput

SpecWrite == InitWrite /\ [][NextWrite]_vars

-----------------------------------------------------------------------------
(* What the claims speak of *)

\* the files in which a username has a score
Present(u) == { f \in DOMAIN all_scores : u \in DOMAIN all_scores[f] }

\* the rows of participants_df that carry a username
RowsOf(u) == { i \in 1..Len(participants_df) : participants_df[i].Username = u }

RECURSIVE Concat(_)
Concat(seqs) == IF seqs = << >> THEN << >> ELSE Head(seqs) \o Concat(Tail(seqs))

Sizes(seqs) == [k \in 1..Len(seqs) |-> Len(seqs[k])]

\* a < b for two str
RECURSIVE StrLess(_, _)
StrLess(a, b) ==
    IF b = << >> THEN FALSE
    ELSE IF a = << >> THEN TRUE
    ELSE IF Head(a) = Head(b) THEN StrLess(Tail(a), Tail(b))
    ELSE Ord(Head(a)) < Ord(Head(b))

\* the points of the rows of standings that carry a username
PointsOfRows(u) ==
    { points_for_rank(standings[k][2]) : k \in { j \in 1..Len(standings) : standings[j][1] = u } }

\* a row the specification accepts: an identifier that is not blank, a rank >= 1
ValidRecord(rec) == rec[1] # << >> /\ rec[2] >= 1

\* a team-size line that is empty, no number, zero or negative
InvalidAnswer(line) ==
    \/ strip(line) = << >>
    \/ int_str(strip(line)).exc = "ValueError"
    \/ int_str(strip(line)).val <= 0

\* s.lower()
lower(s) == [i \in 1..Len(s) |-> IF Has(Upper, s[i]) THEN Lower[IndexIn(Upper, s[i])] ELSE s[i]]

\* the aliases of the specification, in lower case
IdentifierAliases == { lower(Username), lower(Team), << "h", "a", "n", "d", "l", "e" >> }
RankAliases == { lower(Rank), << "p", "o", "s", "i", "t", "i", "o", "n" >> }

HasAlias(columns, aliases) == \E h \in columns : lower(h) \in aliases

\* the directory holds a file main takes
HasXlsx == \E f \in fs.entries : endswith(f, XlsxSuffix)

\* the prompt has been answered
Prompted == pc \in { "file", "rows", "score", "finish" } \/ (pc = "done" /\ fi >= 1)

-----------------------------------------------------------------------------
(* The claims *)

\* C1: once the Participants table is written, the FinalPoints of every row is the
\* sum of that participant's scores over the files where it appears, each other
\* file contributes a column of exactly 0, and every participant seen in any file
\* has exactly one row (and no one else has a row).
C1_FinalPointsIsSumOverFiles ==
    out_file # << >> =>
       /\ \A i \in 1..Len(participants_df) :
             LET row == participants_df[i]
                 u == row.Username
             IN  /\ Present(u) # {}
                 /\ row.FinalPoints =
                       SumOver([f \in Present(u) |-> all_scores[f][u]], Present(u))
                 /\ \A f \in Present(u) : row.cols[f] = all_scores[f][u]
                 /\ \A f \in (DOMAIN all_scores) \ Present(u) : row.cols[f] = 0
       /\ \A f \in DOMAIN all_scores : \A u \in DOMAIN all_scores[f] :
             Cardinality(RowsOf(u)) = 1

\* C1 happens: a table is written in which alice has points in both of two files
\* and they add up (200 + 95), while bob appears in one file only and gets 0 for
\* the other.
C1_Witness ==
    /\ out_file # << >>
    /\ Cardinality(DOMAIN all_scores) = 2
    /\ \E i, j \in 1..Len(participants_df) :
          /\ participants_df[i].Username = Alice
          /\ Cardinality(Present(Alice)) = 2
          /\ participants_df[i].FinalPoints = 295
          /\ participants_df[j].Username = Bob
          /\ Cardinality(Present(Bob)) = 1
          /\ participants_df[j].FinalPoints = 200

\* C2: for a positive team_size the teams are consecutive slices of the sorted
\* frame: put one after the other they give the frame back, every team but the
\* last has team_size rows and the last has between 1 and team_size.
C2_TeamsAreConsecutiveSlices ==
    (pc = "done" /\ team_size > 0) =>
       /\ Concat(teams) = participants_df
       /\ \A k \in 1..Len(teams) :
             /\ k < Len(teams) => Len(teams[k]) = team_size
             /\ Len(teams[k]) >= 1
             /\ Len(teams[k]) <= team_size
       /\ participants_df # << >> => teams # << >>

\* C2 happens: 7 participants sliced with team_size = 3 give teams of 3, 3 and 1.
C2_Witness ==
    /\ pc = "done"
    /\ team_size = 3
    /\ Len(participants_df) = 7
    /\ Sizes(teams) = << 3, 3, 1 >>

\* C3 (as claimed): the rows of the written table are in the order of (total
\* descending, participant id ascending), so that the order is the same in every
\* run. Stated for the tables whose every score comes from a named participant
\* with a rank >= 1.
C3_OrderedByTotalThenId ==
    ( /\ out_file # << >>
      /\ \A f \in DOMAIN all_scores : \A u \in DOMAIN all_scores[f] :
            u # << >> /\ all_scores[f][u] \in 1..200 ) =>
       \A i, j \in 1..Len(participants_df) :
          i < j =>
             \/ participants_df[i].FinalPoints > participants_df[j].FinalPoints
             \/ /\ participants_df[i].FinalPoints = participants_df[j].FinalPoints
                /\ StrLess(participants_df[i].Username, participants_df[j].Username)

C5_BestRowOfTheFile ==
    ( /\ pc \in { "file", "finish" }
      /\ fi >= 2
      /\ standings # << >>
      /\ \A k \in 1..Len(standings) : ValidRecord(standings[k]) ) =>
       \A k \in 1..Len(standings) :
          all_scores[files[fi - 1]][standings[k][1]] = Max(PointsOfRows(standings[k][1]))

\* C6 (as claimed): a team-size line that is empty, no number, zero or negative
\* leaves team_size = 3, never makes the run end in an exception of the slicing,
\* and a finished run has at least one team.
C6_InvalidTeamSizeIsThree ==
    (Prompted /\ InvalidAnswer(answer)) =>
       /\ team_size = 3
       /\ outcome # "ValueError"
       /\ outcome = "AllDone" => teams # << >>

\* C7 (as claimed): only rows with an identifier that is not blank and a rank >= 1
\* become records, every stored score is >= 0, and points_for_rank never gets a
\* rank below 1 (so it never divides by zero).
C7_OnlyValidRowsBecomeRecords ==
    /\ \A k \in 1..Len(standings) : ValidRecord(standings[k])
    /\ \A f \in DOMAIN all_scores : \A u \in DOMAIN all_scores[f] : all_scores[f][u] >= 0
    /\ outcome # "ZeroDivisionError"

\* C8 (as claimed): a run that got to the files ends either with nothing written
\* and the message of the empty result, when no file gave records, or else with the
\* workbook written from exactly the files that gave records.
C8_FailuresOfFilesAreIsolated ==
    (pc = "done" /\ fi >= 1) =>
       IF saved_any
       THEN /\ outcome = "AllDone"
            /\ out_file # << >>
            /\ \A i \in 1..Len(participants_df) :
                  DOMAIN participants_df[i].cols = DOMAIN all_scores
       ELSE /\ outcome = "NothingToSave"
            /\ out_file = << >>

\* C9 (as claimed): a sheet is given up for its columns only when no header is an
\* alias of the identifier or none is an alias of the rank, in any letter case.
C9_SkippedOnlyWithoutAlias ==
    (pc = "score" /\ df.exc = "KeyError") =>
       ~(HasAlias(df.columns, IdentifierAliases) /\ HasAlias(df.columns, RankAliases))

\* C10 (as claimed): with Requirements.txt installed, a missing directory or one
\* without a .xlsx file ends the run in the handled outcome, before the prompt and
\* with nothing written, never in an exception.
C10_MissingInputIsHandled ==
    ( /\ pc = "done"
      /\ fs.requirements
      /\ outcome # "CalledProcessError"
      /\ ~fs.exists \/ ~HasXlsx ) =>
       /\ outcome = "NoExcelFiles"
       /\ fi = 0
       /\ out_file = << >>

\* A file without records leaves the scores of the other files as they are.
FileWithoutRecordsChangesNothing ==
    [][(pc = "score" /\ standings = << >>) =>
          (all_scores' = all_scores /\ saved_any' = saved_any /\ outcome' = outcome)]_vars

====
